---- MODULE Spec2Model ----
(***************************************************************************)
(* A model of outparser.py: the batch conversion of .msg files into a      *)
(* line-delimited JSON file.  main() scans a directory, asks for           *)
(* confirmation, submits one worker task per file to a process pool,       *)
(* appends the record of each task as it completes, and finally re-sorts   *)
(* the output file by Date.                                                *)
(*                                                                         *)
(* Conventions.  A Python str is a sequence of atoms (TLA+ strings, one    *)
(* per character or per opaque name part).  An optional value is a         *)
(* sequence of length 0 (None) or 1.  A file's content is a sequence of    *)
(* atoms; a file that does not exist is <<"ENOENT">>, which no write       *)
(* produces.  The record fields From, To, Message and MessageID are        *)
(* computed by pure functions of the decoded message, never read by the    *)
(* control flow, and left out of the pipeline's records; the helpers that  *)
(* compute them are called directly in a specification of their own,       *)
(* UnitSpec, on every short input.                                         *)
(***************************************************************************)
EXTENDS Integers, Sequences, FiniteSets, TLC

\* ------------------------------------------------------------- bounds

\* Number of .msg files below the scanned root.
NumFiles == 3

\* Size of the process pool (args.workers).
Workers == 2

\* ------------------------------------------------------------- values

None == <<>>

Some(x) == <<x>>

IsNone(o) == Len(o) = 0

RECURSIVE Concat(_)
\* The concatenation of a sequence of sequences.
Concat(ss) == IF Len(ss) = 0 THEN <<>> ELSE Head(ss) \o Concat(Tail(ss))

Take(s, n) == SubSeq(s, 1, n)

IsPrefix(p, s) == Len(p) <= Len(s) /\ Take(s, Len(p)) = p

Range(s) == {s[k] : k \in 1..Len(s)}

\* ---------------------------------------------------- string ordering

\* Code points of the characters a Date is made of.
Digits == <<"0", "1", "2", "3", "4", "5", "6", "7", "8", "9">>

Code(c) == 47 + (CHOOSE k \in 1..Len(Digits) : Digits[k] = c)

RECURSIVE StrLess(_, _)
\* Python's a < b on str: lexicographic by code point, a proper prefix is less.
StrLess(a, b) ==
    IF Len(b) = 0 THEN FALSE
    ELSE IF Len(a) = 0 THEN TRUE
    ELSE IF Head(a) = Head(b) THEN StrLess(Tail(a), Tail(b))
    ELSE Code(Head(a)) < Code(Head(b))

StrLeq(a, b) == a = b \/ StrLess(a, b)

\* --------------------------------------------------- pure normalizers

\* str.lower() on the atoms the program lowers (file suffixes, the answer).
Lower(a) ==
    CASE a = ".MSG" -> ".msg"
      [] a = "Y" -> "y"
      [] a = "N" -> "n"
      [] OTHER -> a

\* The characters matched by [\x00-\x1F\x7F].
ControlChars == {"\\x00", "\\x1F", "\\x7F"}

\* The characters matched by [\\\\/:*?\"<>|].
ForbiddenChars == {"\\", "/", ":", "*", "?", "\"", "<", ">", "|"}

\* The name is sanitized and an empty result is returned as it is.
safe_filename_no_placeholder(name) ==
    LET stripped == SelectSeq(name, LAMBDA c : c \notin ControlChars)
    IN  [k \in 1..Len(stripped) |->
            IF stripped[k] \in ForbiddenChars THEN "_" ELSE stripped[k]]

\* safe_filename: drop control characters, replace forbidden ones by "_",
\* and name an empty result "unnamed_attachment".
safe_filename(name) ==
    LET stripped == SelectSeq(name, LAMBDA c : c \notin ControlChars)
        replaced == [k \in 1..Len(stripped) |->
                        IF stripped[k] \in ForbiddenChars THEN "_" ELSE stripped[k]]
    IN  IF Len(replaced) = 0 THEN <<"unnamed_attachment">> ELSE replaced

\* clean_value on a str: remove the NUL characters.
clean_value(value) == SelectSeq(value, LAMBDA c : c # "\\x00")

\* datetime.isoformat(), on a datetime reduced to its day number: the
\* zero-padded decimal digits, so that later days are greater strings.
isoformat(d) == <<Digits[(d \div 10) + 1], Digits[(d % 10) + 1]>>

\* ------------------------------------------------ address summaries

\* The characters str.strip() removes, of those an address may hold: the
\* space and the unit separator (str.isspace() holds of \x1C..\x1F).
Whitespace == {" ", "\\x1F"}

RECURSIVE lstrip(_)
lstrip(s) == IF Len(s) > 0 /\ Head(s) \in Whitespace THEN lstrip(Tail(s)) ELSE s

RECURSIVE rstrip(_)
rstrip(s) ==
    IF Len(s) > 0 /\ s[Len(s)] \in Whitespace THEN rstrip(Take(s, Len(s) - 1)) ELSE s

\* str.strip(): remove the leading and the trailing whitespace.
strip(s) == rstrip(lstrip(s))

RECURSIVE split(_, _)
\* str.split(sep): the pieces between the separators, empty ones included.
split(s, sep) ==
    IF sep \notin Range(s) THEN <<s>>
    ELSE LET k == CHOOSE j \in 1..Len(s) : s[j] = sep /\ \A m \in 1..(j - 1) : s[m] # sep
         IN  <<Take(s, k - 1)>> \o split(SubSeq(s, k + 1, Len(s)), sep)

RECURSIVE join(_, _)
\* sep.join(parts)
join(sep, parts) ==
    IF Len(parts) = 0 THEN <<>>
    ELSE IF Len(parts) = 1 THEN parts[1]
    ELSE parts[1] \o sep \o join(sep, Tail(parts))

RECURSIVE Decimal(_)
\* The decimal digits an f-string prints for a natural number.
Decimal(n) ==
    IF n < 10 THEN <<Digits[n + 1]>>
    ELSE Decimal(n \div 10) \o <<Digits[(n % 10) + 1]>>

\* The list is cut one entry early: a list of exactly limit entries is summarized.
WithinLimitStrict(count, limit) == limit = 0 \/ count < limit

\* limit == 0 or len(addr_list) <= limit
WithinLimit(count, limit) == limit = 0 \/ count <= limit

\* f", and {n} others"
OthersSuffix(n) ==
    <<",", " ", "a", "n", "d", " ">> \o Decimal(n) \o <<" ", "o", "t", "h", "e", "r", "s">>

\* summarize_addresses(addresses, limit), addresses being None or a str.
summarize_addresses(addresses, limit) ==
    IF IsNone(addresses) \/ Len(addresses[1]) = 0 THEN <<>>
    ELSE LET pieces == split(addresses[1], ";")
             addr_list == [k \in 1..Len(pieces) |-> clean_value(strip(pieces[k]))]
         IN  IF WithinLimit(Len(addr_list), limit)
             THEN join(<<",", " ">>, addr_list)
             ELSE join(<<",", " ">>, Take(addr_list, limit))
                    \o OthersSuffix(Len(addr_list) - limit)

\* ------------------------------------------------ clean_value by type

\* The bytes cp1252 leaves undefined, of those a payload may hold.
UndefinedBytes == {"\\x81"}

\* bytes.decode("cp1252", errors="replace"): an undefined byte becomes U+FFFD.
decode(bs) ==
    [k \in 1..Len(bs) |-> IF bs[k] \in UndefinedBytes THEN "\\uFFFD" ELSE bs[k]]

Returned(value) == [raised |-> FALSE, value |-> value]

Raised == [raised |-> TRUE, value |-> <<>>]

\* str(value) for a value that is neither None, bytes nor str: what its
\* __str__ returns, or the exception it raises.
str_of(v) == IF v.raises THEN Raised ELSE Returned(v.chars)

\* clean_value(value) for a value of any type.
clean_value_typed(v) ==
    CASE v.type = "NoneType" -> Returned(<<>>)
      [] v.type = "bytes" ->
            Returned(clean_value(decode(SelectSeq(v.chars, LAMBDA b : b # "\\x00"))))
      [] v.type = "str" -> Returned(clean_value(v.chars))
      [] OTHER -> str_of(v)

\* ------------------------------------------------- the sample file tree

\* The directory given on the command line and its one subdirectory.
RootDir == <<"in/">>

SubDir == <<"in/", "sub/">>

Stems == <<"m1", "m2", "m3", "m4", "m5", "m6">>

\* The file name of the i-th message file: every second suffix is upper case.
MsgName(n) == <<Stems[n], IF n % 2 = 0 THEN ".MSG" ELSE ".msg">>

\* Every third message file lies in the subdirectory.
InSub(n) == n % 3 = 0

FileIds == [n \in 1..NumFiles |-> n]

\* os.listdir(root) restricted to regular files, in the order the file
\* system reports them; the subdirectory's own entry has no .msg suffix.
TopNames ==
    <<<<"notes", ".txt">>>> \o
    [k \in 1..Len(SelectSeq(FileIds, LAMBDA n : ~InSub(n))) |->
        MsgName(SelectSeq(FileIds, LAMBDA n : ~InSub(n))[k])]

SubNames ==
    [k \in 1..Len(SelectSeq(FileIds, LAMBDA n : InSub(n))) |->
        MsgName(SelectSeq(FileIds, LAMBDA n : InSub(n))[k])]

\* Path(filepath).stem: the last component without its suffix.
Stem(path) == <<path[Len(path) - 1]>>

\* The attachment entries of the messages: [long, short] optional names and
\* the payload.  Message n holds the entries of sample ((n - 1) % 3) + 1.
SampleAttachments ==
    << <<>>,
       << [longFilename |-> Some(<<"a", "/", "b">>), shortFilename |-> None,
           data |-> "d1"],
          [longFilename |-> None, shortFilename |-> None, data |-> "d2"],
          [longFilename |-> Some(<<>>), shortFilename |-> Some(<<"c">>),
           data |-> "d3"] >>,
       << [longFilename |-> None, shortFilename |-> Some(<<"\\x00">>),
           data |-> "d4"] >> >>

AttachmentsOf(path) ==
    LET n == CHOOSE m \in 1..Len(Stems) : <<Stems[m]>> = Stem(path)
    IN  SampleAttachments[((n - 1) % Len(SampleAttachments)) + 1]

\* msg.date as the decoder yields it: absent, or a datetime (a day number).
RawDates == {None, Some(9), Some(10)}

\* ------------------------------------------------------- JSON lines

\* A JSON string literal: quotes and backslashes are escaped.
Quote(str) ==
    <<"\"">> \o
    Concat([k \in 1..Len(str) |->
              IF str[k] \in {"\"", "\\"} THEN <<"\\", str[k]>> ELSE <<str[k]>>]) \o
    <<"\"">>

\* A JSON array of string literals.
QuoteList(strs) ==
    <<"[">> \o
    Concat([k \in 1..Len(strs) |->
              IF k = 1 THEN Quote(strs[k]) ELSE <<",">> \o Quote(strs[k])]) \o
    <<"]">>

\* json.dumps(record, ensure_ascii=False, default=str): the object's keys in
\* the dict's insertion order.
dumps(record) ==
    <<"{", "\"Date\":">> \o Quote(record.Date) \o
    <<",", "\"Attachments\":">> \o QuoteList(record.Attachments) \o
    <<",", "\"SourceFile\":">> \o Quote(record.SourceFile) \o
    <<"}">>

\* The atom at position p, "EOF" past the end.
At(toks, p) == IF p \in 1..Len(toks) THEN toks[p] ELSE "EOF"

RECURSIVE ScanString(_, _, _)
\* The characters from p up to the closing quote, unescaped: the value, the
\* position after the quote, and whether the literal was closed.
ScanString(toks, p, acc) ==
    IF At(toks, p) = "EOF" THEN [val |-> acc, next |-> p, ok |-> FALSE]
    ELSE IF toks[p] = "\"" THEN [val |-> acc, next |-> p + 1, ok |-> TRUE]
    ELSE IF toks[p] = "\\" /\ p < Len(toks)
         THEN ScanString(toks, p + 2, Append(acc, toks[p + 1]))
    ELSE ScanString(toks, p + 1, Append(acc, toks[p]))

\* A string literal starting at p.
ParseString(toks, p) ==
    IF At(toks, p) = "\"" THEN ScanString(toks, p + 1, <<>>)
    ELSE [val |-> <<>>, next |-> p, ok |-> FALSE]

RECURSIVE ScanList(_, _, _)
\* The elements of an array whose next element starts at p.
ScanList(toks, p, acc) ==
    LET e == ParseString(toks, p)
    IN  IF ~e.ok THEN [val |-> acc, next |-> p, ok |-> FALSE]
        ELSE IF At(toks, e.next) = "," THEN ScanList(toks, e.next + 1, Append(acc, e.val))
        ELSE IF At(toks, e.next) = "]"
             THEN [val |-> Append(acc, e.val), next |-> e.next + 1, ok |-> TRUE]
        ELSE [val |-> acc, next |-> e.next, ok |-> FALSE]

\* An array of string literals starting at p.
ParseList(toks, p) ==
    IF At(toks, p) # "[" THEN [val |-> <<>>, next |-> p, ok |-> FALSE]
    ELSE IF At(toks, p + 1) = "]" THEN [val |-> <<>>, next |-> p + 2, ok |-> TRUE]
    ELSE ScanList(toks, p + 1, <<>>)

\* json.loads(line): the record, or a failure (json.JSONDecodeError) when the
\* line is not exactly one object of the written shape.
loads(line) ==
    LET d == ParseString(line, 3)
        a == ParseList(line, d.next + 2)
        f == ParseString(line, a.next + 2)
    IN  IF /\ At(line, 1) = "{" /\ At(line, 2) = "\"Date\":" /\ d.ok
           /\ At(line, d.next) = "," /\ At(line, d.next + 1) = "\"Attachments\":" /\ a.ok
           /\ At(line, a.next) = "," /\ At(line, a.next + 1) = "\"SourceFile\":" /\ f.ok
           /\ At(line, f.next) = "}" /\ f.next = Len(line)
        THEN [ok |-> TRUE,
              val |-> [Date |-> d.val, Attachments |-> a.val, SourceFile |-> f.val]]
        ELSE [ok |-> FALSE,
              val |-> [Date |-> <<>>, Attachments |-> <<>>, SourceFile |-> <<>>]]

\* The positions of the line breaks of a content.
Breaks(content) == {k \in 1..Len(content) : content[k] = "\n"}

\* The position of the j-th line break.
NthBreak(content, j) ==
    CHOOSE k \in Breaks(content) :
        Cardinality({b \in Breaks(content) : b <= k}) = j

\* Iterating a text file: its lines without their line break; a last line
\* that lacks one is a line too.
Lines(content) ==
    [j \in 1..(Cardinality(Breaks(content)) +
               (IF Len(content) > 0 /\ content[Len(content)] # "\n" THEN 1 ELSE 0)) |->
        SubSeq(content,
               IF j = 1 THEN 1 ELSE NthBreak(content, j - 1) + 1,
               IF j <= Cardinality(Breaks(content))
               THEN NthBreak(content, j) - 1
               ELSE Len(content))]

\* What f.write(json.dumps(...) + "\n") appends to a content.
WriteLine(content, record) == content \o dumps(record) \o <<"\n">>

\* ------------------------------------------------------ the stable sort

\* The sort key of the reorder pass: r.get("Date", "").
KeyOf(r) == r.Date

\* Descending order obtained by reversing an ascending sort: among equal
\* keys the later record comes first.
BeforeReversedTies(a, b, reverse) == IF reverse THEN ~StrLess(a, b) ELSE StrLess(a, b)

\* Whether key a must come strictly before key b.
Before(a, b, reverse) == IF reverse THEN StrLess(b, a) ELSE StrLess(a, b)

RECURSIVE InsertDedup(_, _, _)
\* Insert with a fault: a record whose key is already present is dropped, as
\* when the records are gathered in a dict keyed by Date.
InsertDedup(sorted, x, reverse) ==
    IF Len(sorted) = 0 THEN <<x>>
    ELSE IF KeyOf(x) = KeyOf(Head(sorted)) THEN sorted
    ELSE IF Before(KeyOf(x), KeyOf(Head(sorted)), reverse) THEN <<x>> \o sorted
    ELSE <<Head(sorted)>> \o InsertDedup(Tail(sorted), x, reverse)

RECURSIVE InsertUnstable(_, _, _)
\* Insert with a fault: x is placed before the elements with an equal key, as
\* an unstable sort may do.
InsertUnstable(sorted, x, reverse) ==
    IF Len(sorted) = 0 THEN <<x>>
    ELSE IF ~Before(KeyOf(Head(sorted)), KeyOf(x), reverse) THEN <<x>> \o sorted
    ELSE <<Head(sorted)>> \o InsertUnstable(Tail(sorted), x, reverse)

RECURSIVE Insert(_, _, _)
\* x placed after every element it does not strictly precede.
Insert(sorted, x, reverse) ==
    IF Len(sorted) = 0 THEN <<x>>
    ELSE IF Before(KeyOf(x), KeyOf(Head(sorted)), reverse) THEN <<x>> \o sorted
    ELSE <<Head(sorted)>> \o Insert(Tail(sorted), x, reverse)

RECURSIVE Sort(_, _)
\* list.sort(key=..., reverse=...): stable in both directions.
Sort(rs, reverse) ==
    IF Len(rs) = 0 THEN <<>>
    ELSE Insert(Sort(Take(rs, Len(rs) - 1), reverse), rs[Len(rs)], reverse)

\* ------------------------------------------------------------ the state

VARIABLES
    pc,            \* where main() stands
    recursive,     \* args.recursive
    sort_date,     \* args.sort_date
    rootReadable,  \* whether args.directory can be listed
    attdir,        \* args.attachments_dir: whether it exists, and its files
    files,         \* the scanned paths, in scan order
    confirm,       \* the answer read at the confirmation gate
    out,           \* the content of the file args.output
    futures,       \* per submitted task: the future's state and result
    proc,          \* per running task: the locals of process_msg_file
    yielded,       \* the tasks as_completed has handed to main, in order
    i,             \* the loop counter of the collection loop
    errors,        \* the collected error messages
    summary,       \* the counts printed after the loop
    records,       \* the records the reorder pass holds in memory
    w,             \* how many records the reorder pass has written back
    exitCode,      \* the process's exit status, once it has ended
    call           \* a direct call of a helper: its arguments and outcome

vars == <<pc, recursive, sort_date, rootReadable, attdir, files, confirm, out,
          futures, proc, yielded, i, errors, summary, records, w, exitCode,
          call>>

\* The content of a file that does not exist.
NoFile == <<"ENOENT">>

\* What an earlier run may have left in the output file.
OldContent == <<"{", "stale", "}", "\n">>

SortModes == {"asc", "desc", "none"}

Answers == {"Y", "yes", "n", ""}

Tasks == 1..Len(futures)

total == Len(files)

Idle == [msg_date |-> <<>>, attachment_names |-> <<>>, k |-> 0]

\* No helper is being called directly: main() is what runs.
NoCall == [fn |-> "main"]

Init ==
    /\ pc = "mkdir"
    /\ recursive \in BOOLEAN
    /\ sort_date \in SortModes
    /\ rootReadable \in BOOLEAN
    /\ attdir = [exists |-> FALSE, files |-> {}]
    /\ files = <<>>
    /\ confirm = ""
    /\ out \in {NoFile, OldContent}
    /\ futures = <<>>
    /\ proc = <<>>
    /\ yielded = <<>>
    /\ i = 0
    /\ errors = <<>>
    /\ summary = None
    /\ records = <<>>
    /\ w = 0
    /\ exitCode = None
    /\ call = NoCall

\* ------------------------------------------------------------ the scan

\* The name passes the suffix filter f.lower().endswith(".msg").
IsMsg(name) == Lower(name[Len(name)]) = ".msg"

\* The paths dir / f of the names of a listing that pass the filter.
MsgPaths(dir, names) ==
    LET kept == SelectSeq(names, IsMsg)
    IN  [k \in 1..Len(kept) |-> dir \o kept[k]]

\* list(scan_directory(directory, recursive)): the paths, or the failure of
\* the listing.  os.walk ignores the error of a directory it cannot list and
\* yields nothing for it; os.listdir raises OSError.
scan_directory(readable, rec) ==
    IF rec
    THEN [ok |-> TRUE,
          val |-> IF readable
                  THEN MsgPaths(RootDir, TopNames) \o MsgPaths(SubDir, SubNames)
                  ELSE <<>>]
    ELSE IF readable
         THEN [ok |-> TRUE, val |-> MsgPaths(RootDir, TopNames)]
         ELSE [ok |-> FALSE, val |-> <<>>]

\* ------------------------------------------------------- the main flow

\* Path(args.attachments_dir).mkdir(parents=True, exist_ok=True)
MkAttDir ==
    /\ pc = "mkdir"
    /\ attdir' = [attdir EXCEPT !.exists = TRUE]
    /\ pc' = "scan"
    /\ UNCHANGED <<call, recursive, sort_date, rootReadable, files, confirm, out, futures,
                   proc, yielded, i, errors, summary, records, w, exitCode>>

\* errors = []; files = list(scan_directory(...)): an OSError of the listing
\* is not caught and ends the process with status 1.
Scan ==
    /\ pc = "scan"
    /\ LET r == scan_directory(rootReadable, recursive)
       IN  IF r.ok
           THEN /\ files' = r.val
                /\ pc' = "confirm"
                /\ exitCode' = exitCode
           ELSE /\ files' = files
                /\ pc' = "crashed"
                /\ exitCode' = Some(1)
    /\ errors' = <<>>
    /\ UNCHANGED <<call, recursive, sort_date, rootReadable, attdir, confirm, out, futures,
                   proc, yielded, i, summary, records, w>>

\* Affirmative with a fault: only the answer "n" declines.
AffirmativeUnlessNo(answer) == Lower(answer) # "n"

\* if confirm.lower() != 'y'
Affirmative(answer) == Lower(answer) = "y"

\* confirm = input(...); exit(1) unless the answer is affirmative.
Confirm ==
    /\ pc = "confirm"
    /\ \E answer \in Answers :
          /\ confirm' = answer
          /\ IF Affirmative(answer)
             THEN pc' = "open" /\ exitCode' = exitCode
             ELSE pc' = "exited" /\ exitCode' = Some(1)
    /\ UNCHANGED <<call, recursive, sort_date, rootReadable, attdir, files, out, futures,
                   proc, yielded, i, errors, summary, records, w>>

\* open(path, "w"): the file is created, or truncated to nothing.
OpenForWrite(content) == <<>>

\* The with statement opens the pool and the output file, and every file is
\* submitted: futures = {executor.submit(worker, f, ...): f for f in files}.
OpenAndSubmit ==
    /\ pc = "open"
    /\ out' = OpenForWrite(out)
    /\ futures' = [t \in 1..total |-> [state |-> "PENDING", record |-> None, error |-> None]]
    /\ proc' = [t \in 1..total |-> Idle]
    /\ pc' = "collect"
    /\ UNCHANGED <<call, recursive, sort_date, rootReadable, attdir, files, confirm,
                   yielded, i, errors, summary, records, w, exitCode>>

\* ------------------------------------------------------ the worker tasks

Running == {t \in Tasks : futures[t].state = "RUNNING"}

\* msg_date = msg.date or ""; a datetime is replaced by its isoformat().
MsgDate(raw) == IF IsNone(raw) THEN <<>> ELSE isoformat(raw[1])

\* ExceptionResult with a fault: the except clause returns None, None.
ExceptionResultLost(filepath, cause) ==
    [state |-> "FINISHED", record |-> None, error |-> None]

\* ExceptionResult with a fault: the failure is reported together with a
\* record of what had been gathered of the message.
ExceptionResultWithRecord(filepath, cause) ==
    [state |-> "FINISHED",
     record |-> Some([Date |-> <<>>, Attachments |-> <<>>, SourceFile |-> filepath]),
     error |-> Some(<<"Error parsing ">> \o filepath \o <<": ", cause>>)]

\* except Exception as e: return None, f"Error parsing {filepath}: {e}"
ExceptionResult(filepath, cause) ==
    [state |-> "FINISHED", record |-> None,
     error |-> Some(<<"Error parsing ">> \o filepath \o <<": ", cause>>)]

\* return {"Date": ..., "Attachments": ..., "SourceFile": str(filepath)}, None
ReturnResult(filepath, locals) ==
    [state |-> "FINISHED",
     record |-> Some([Date |-> locals.msg_date,
                      Attachments |-> locals.attachment_names,
                      SourceFile |-> filepath]),
     error |-> None]

\* ChosenName with a fault: the short name is never consulted.
ChosenNameLongOnly(att) == att.longFilename

\* att.longFilename or att.shortFilename: the first that is neither None nor "".
ChosenName(att) ==
    IF ~IsNone(att.longFilename) /\ Len(att.longFilename[1]) > 0
    THEN att.longFilename
    ELSE att.shortFilename

\* f"{Path(filepath).stem}_{filename}"
UniqueName(filepath, filename) == Stem(filepath) \o <<"_">> \o filename

\* The directory after a file of this name is created or overwritten.
WriteFile(dir, name, data) ==
    [dir EXCEPT !.files = {f \in @ : f.name # name} \cup {[name |-> name, data |-> data]}]

\* The task's state once its loop stands at locals.k: the next iteration is
\* pending, or the loop is over and the record is returned.
Advance(fs, ps, t, locals) ==
    IF locals.k > Len(AttachmentsOf(files[t]))
    THEN [futures |-> [fs EXCEPT ![t] = ReturnResult(files[t], locals)],
          proc |-> [ps EXCEPT ![t] = Idle]]
    ELSE [futures |-> [fs EXCEPT ![t].state = "RUNNING"],
          proc |-> [ps EXCEPT ![t] = locals]]

\* The pool's call queue is first in, first out: the next task a free process
\* takes is the earliest submitted one that is still pending.
NextPending(t) == \A u \in Tasks : u < t => futures[u].state # "PENDING"

\* A pool process takes the task and runs process_msg_file up to the
\* attachment loop: the message is decoded (which may raise) and its fields
\* are normalized.
RunTask(t) ==
    /\ pc = "collect"
    /\ futures[t].state = "PENDING"
    /\ NextPending(t)
    /\ Cardinality(Running) < Workers
    /\ \/ /\ futures' = [futures EXCEPT ![t] = ExceptionResult(files[t], "InvalidFormat")]
          /\ proc' = proc
       \/ \E raw \in RawDates :
             LET next == Advance(futures, proc, t,
                                 [msg_date |-> MsgDate(raw),
                                  attachment_names |-> <<>>, k |-> 1])
             IN  futures' = next.futures /\ proc' = next.proc
    /\ UNCHANGED <<call, pc, recursive, sort_date, rootReadable, attdir, files, confirm, out,
                   yielded, i, errors, summary, records, w, exitCode>>

\* One iteration of "for att in msg.attachments": an entry without a name is
\* skipped; otherwise the payload is written under the attachments directory,
\* where the write may raise: open() has then created the file, which is
\* left empty.
AttStep(t) ==
    /\ pc = "collect"
    /\ futures[t].state = "RUNNING"
    /\ LET att == AttachmentsOf(files[t])[proc[t].k]
           chosen == ChosenName(att)
           unique == UniqueName(files[t], safe_filename(chosen[1]))
           skipped == Advance(futures, proc, t, [proc[t] EXCEPT !.k = @ + 1])
           saved == Advance(futures, proc, t,
                            [proc[t] EXCEPT !.k = @ + 1,
                                            !.attachment_names =
                                                Append(@, clean_value(unique))])
       IN  IF IsNone(chosen) \/ Len(chosen[1]) = 0
           THEN /\ futures' = skipped.futures
                /\ proc' = skipped.proc
                /\ attdir' = attdir
           ELSE \/ /\ attdir' = WriteFile(attdir, unique, att.data)
                   /\ futures' = saved.futures
                   /\ proc' = saved.proc
                \/ /\ attdir' = WriteFile(attdir, unique, "")
                   /\ futures' = [futures EXCEPT
                                    ![t] = ExceptionResult(files[t], "WriteFailed")]
                   /\ proc' = [proc EXCEPT ![t] = Idle]
    /\ UNCHANGED <<call, pc, recursive, sort_date, rootReadable, files, confirm, out,
                   yielded, i, errors, summary, records, w, exitCode>>

\* ------------------------------------------------- the collection loop

\* RecordTruthy with a fault: a record without a Date counts as no record.
RecordTruthyDated(record) == ~IsNone(record) /\ Len(record[1].Date) > 0

\* "if record:" holds of every dict the worker returns (it has its keys).
RecordTruthy(record) == ~IsNone(record)

\* "if error:" holds of a non-empty message.
ErrorTruthy(error) == ~IsNone(error) /\ Len(error[1]) > 0

\* StreamResult with a fault: the line break is not written.
StreamResultNoBreak(content, result) ==
    IF RecordTruthy(result.record) THEN content \o dumps(result.record[1]) ELSE content

\* What the loop body leaves in the output file for one result.
StreamResult(content, result) ==
    IF RecordTruthy(result.record) THEN WriteLine(content, result.record[1]) ELSE content

\* CollectError with a fault: the list is replaced, not appended to.
CollectErrorOverwrite(errs, result) ==
    IF ErrorTruthy(result.error) THEN <<result.error[1]>> ELSE errs

\* What the loop body leaves in the error list for one result.
CollectError(errs, result) ==
    IF ErrorTruthy(result.error) THEN Append(errs, result.error[1]) ELSE errs

\* One iteration of "for i, fut in enumerate(as_completed(futures), 1)":
\* as_completed hands over a finished future it has not handed over yet.
Collect(t) ==
    /\ pc = "collect"
    /\ futures[t].state = "FINISHED"
    /\ t \notin Range(yielded)
    /\ yielded' = Append(yielded, t)
    /\ i' = i + 1
    /\ out' = StreamResult(out, futures[t])
    /\ errors' = CollectError(errors, futures[t])
    /\ UNCHANGED <<call, pc, recursive, sort_date, rootReadable, attdir, files, confirm,
                   futures, proc, summary, records, w, exitCode>>

\* as_completed is exhausted: the with block ends (the pool is shut down, the
\* file is closed) and the counts are printed.
CloseAndReport ==
    /\ pc = "collect"
    /\ Len(yielded) = Len(futures)
    /\ summary' = Some([succeeded |-> total - Len(errors), failed |-> Len(errors)])
    /\ pc' = "reorder"
    /\ UNCHANGED <<call, recursive, sort_date, rootReadable, attdir, files, confirm, out,
                   futures, proc, yielded, i, errors, records, w, exitCode>>

\* ----------------------------------------------------- the reorder pass

\* ReorderWanted with a fault: the mode is not looked at.
ReorderAlways(mode) == TRUE

\* if args.sort_date != "none"
ReorderWanted(mode) == mode # "none"

\* Reverse with a fault: the direction is never reversed.
ReverseNever(mode) == FALSE

\* reverse = args.sort_date == "desc"
Reverse(mode) == mode = "desc"

RECURSIVE WriteAll(_, _)
\* "for r in records: f.write(...)" run to its end on a content.
WriteAll(content, rs) ==
    IF Len(rs) = 0 THEN content
    ELSE WriteAll(WriteLine(content, Head(rs)), Tail(rs))

\* Whether json.loads accepts every line of a content.
AllParse(content) ==
    LET ls == Lines(content) IN \A k \in 1..Len(ls) : loads(ls[k]).ok

\* [json.loads(line) for line in f], of a content whose lines all parse.
ReadRecords(content) ==
    LET ls == Lines(content) IN [k \in 1..Len(ls) |-> loads(ls[k]).val]

\* The whole reorder pass as a function of the file's content: read back,
\* sort, truncate, write all.
ReorderPass(content, mode) ==
    IF ReorderWanted(mode)
    THEN WriteAll(OpenForWrite(content), Sort(ReadRecords(content), Reverse(mode)))
    ELSE content

\* No reorder pass: main returns.
SkipReorder ==
    /\ pc = "reorder"
    /\ ~ReorderWanted(sort_date)
    /\ pc' = "done"
    /\ exitCode' = Some(0)
    /\ UNCHANGED <<call, recursive, sort_date, rootReadable, attdir, files, confirm, out,
                   futures, proc, yielded, i, errors, summary, records, w>>

\* records = [json.loads(line) for line in f]; a line that does not parse
\* raises, which nothing catches.
ReadBack ==
    /\ pc = "reorder"
    /\ ReorderWanted(sort_date)
    /\ records' = IF AllParse(out) THEN ReadRecords(out) ELSE records
    /\ pc' = IF AllParse(out) THEN "sort" ELSE "crashed"
    /\ exitCode' = IF AllParse(out) THEN exitCode ELSE Some(1)
    /\ UNCHANGED <<call, recursive, sort_date, rootReadable, attdir, files, confirm, out,
                   futures, proc, yielded, i, errors, summary, w>>

\* records.sort(key=lambda r: r.get("Date", ""), reverse=reverse)
SortRecords ==
    /\ pc = "sort"
    /\ records' = Sort(records, Reverse(sort_date))
    /\ pc' = "truncate"
    /\ UNCHANGED <<call, recursive, sort_date, rootReadable, attdir, files, confirm, out,
                   futures, proc, yielded, i, errors, summary, w, exitCode>>

\* Truncate with a fault: the file is opened in append mode.
TruncateAppend ==
    /\ pc = "truncate"
    /\ w' = 0
    /\ pc' = "rewrite"
    /\ UNCHANGED <<call, recursive, sort_date, rootReadable, attdir, files, confirm, out,
                   futures, proc, yielded, i, errors, summary, records, exitCode>>

\* with open(args.output, "w", ...) as f: the file is truncated on opening.
Truncate ==
    /\ pc = "truncate"
    /\ out' = OpenForWrite(out)
    /\ w' = 0
    /\ pc' = "rewrite"
    /\ UNCHANGED <<call, recursive, sort_date, rootReadable, attdir, files, confirm,
                   futures, proc, yielded, i, errors, summary, records, exitCode>>

\* One iteration of "for r in records: f.write(json.dumps(r, ...) + '\n')".
RewriteLine ==
    /\ pc = "rewrite"
    /\ w < Len(records)
    /\ out' = WriteLine(out, records[w + 1])
    /\ w' = w + 1
    /\ UNCHANGED <<call, pc, recursive, sort_date, rootReadable, attdir, files, confirm,
                   futures, proc, yielded, i, errors, summary, records, exitCode>>

\* The rewrite is complete: the file is closed and main returns.
FinishReorder ==
    /\ pc = "rewrite"
    /\ w = Len(records)
    /\ pc' = "done"
    /\ exitCode' = Some(0)
    /\ UNCHANGED <<call, recursive, sort_date, rootReadable, attdir, files, confirm, out,
                   futures, proc, yielded, i, errors, summary, records, w>>

\* ------------------------------------------------------ specification

Next ==
    \/ MkAttDir
    \/ Scan
    \/ Confirm
    \/ OpenAndSubmit
    \/ \E t \in Tasks : RunTask(t)
    \/ \E t \in Tasks : AttStep(t)
    \/ \E t \in Tasks : Collect(t)
    \/ CloseAndReport
    \/ SkipReorder
    \/ ReadBack
    \/ SortRecords
    \/ Truncate
    \/ RewriteLine
    \/ FinishReorder

Spec == Init /\ [][Next]_vars

\* A step of a pool process.
PoolStep == \E t \in Tasks : RunTask(t) \/ AttStep(t)

\* A step of main's collection loop, its exit included.
LoopStep == (\E t \in Tasks : Collect(t)) \/ CloseAndReport

\* The operating system keeps running the pool's processes while a task can
\* take a step, and main while a finished future waits to be handed over.
FairSpec == Spec /\ WF_vars(PoolStep) /\ WF_vars(LoopStep)

\* ------------------------------------------- the helpers, called directly

\* Longest text handed to a helper.
MaxLen == 3

\* Largest --from-limit / --to-limit.
MaxLimit == 2

\* The characters of the texts: a letter, the address separator, both kinds
\* of whitespace, a forbidden character and the control characters.
Chars == {"a", ";", " ", "/", "\\x00", "\\x1F", "\\x7F"}

\* The bytes of the payloads: a letter, NUL and a byte cp1252 leaves undefined.
ByteChars == {"a", "\\x00", "\\x81"}

RECURSIVE SeqsUpTo(_, _)
\* The sequences over S of length at most n.
SeqsUpTo(S, n) ==
    IF n = 0 THEN {<<>>}
    ELSE LET shorter == SeqsUpTo(S, n - 1)
         IN  shorter \cup {Append(s, c) : s \in shorter, c \in S}

\* The texts: every short one, and two longer file names.
Strs ==
    SeqsUpTo(Chars, MaxLen)
        \cup {<<"a", "/", "b", ":", "c">>,
              <<"\\", "/", ":", "*", "?", "\"", "<", ">", "|">>}

\* The values a helper may be handed: None, a str, a bytes, or an object of
\* another type, whose __str__ returns a text or raises.
Values ==
    {[type |-> "NoneType", chars |-> <<>>, raises |-> FALSE]}
        \cup {[type |-> "str", chars |-> s, raises |-> FALSE] : s \in Strs}
        \cup {[type |-> "bytes", chars |-> b, raises |-> FALSE] :
                 b \in SeqsUpTo(ByteChars, MaxLen)}
        \cup {[type |-> "object", chars |-> s, raises |-> FALSE] : s \in Strs}
        \cup {[type |-> "object", chars |-> <<>>, raises |-> TRUE]}

mainVars == <<pc, recursive, sort_date, rootReadable, attdir, files, confirm, out,
              futures, proc, yielded, i, errors, summary, records, w, exitCode>>

\* The module is imported and main() is not run; a helper is about to be
\* called with a value and a limit.
UnitInit ==
    /\ pc = "imported"
    /\ recursive = FALSE
    /\ sort_date = "none"
    /\ rootReadable = TRUE
    /\ attdir = [exists |-> FALSE, files |-> {}]
    /\ files = <<>>
    /\ confirm = ""
    /\ out = NoFile
    /\ futures = <<>>
    /\ proc = <<>>
    /\ yielded = <<>>
    /\ i = 0
    /\ errors = <<>>
    /\ summary = None
    /\ records = <<>>
    /\ w = 0
    /\ exitCode = None
    /\ \E v \in Values, limit \in 0..MaxLimit :
          call = [fn |-> "pending", value |-> v, limit |-> limit, ret |-> Returned(<<>>)]

\* summarize_addresses(value, limit) on None or a str.
CallSummarizeAddresses ==
    /\ call.fn = "pending"
    /\ call.value.type \in {"NoneType", "str"}
    /\ call' = [call EXCEPT
                  !.fn = "summarize_addresses",
                  !.ret = Returned(summarize_addresses(
                              IF call.value.type = "NoneType" THEN None
                              ELSE Some(call.value.chars), call.limit))]
    /\ UNCHANGED mainVars

\* safe_filename(value) on a str.
CallSafeFilename ==
    /\ call.fn = "pending"
    /\ call.value.type = "str"
    /\ call' = [call EXCEPT !.fn = "safe_filename",
                            !.ret = Returned(safe_filename(call.value.chars))]
    /\ UNCHANGED mainVars

\* clean_value(value) on a value of any type.
CallCleanValue ==
    /\ call.fn = "pending"
    /\ call' = [call EXCEPT !.fn = "clean_value", !.ret = clean_value_typed(call.value)]
    /\ UNCHANGED mainVars

UnitNext == CallSummarizeAddresses \/ CallSafeFilename \/ CallCleanValue

UnitSpec == UnitInit /\ [][UnitNext]_vars

\* ------------------------------------------------------------- claims

Succeeded == {t \in Tasks : futures[t].state = "FINISHED" /\ ~IsNone(futures[t].record)}

Failed == {t \in Tasks : futures[t].state = "FINISHED" /\ IsNone(futures[t].record)}

\* The tasks handed to main so far that returned a record, in that order.
YieldedOk == SelectSeq(yielded, LAMBDA t : t \in Succeeded)

YieldedFailed == SelectSeq(yielded, LAMBDA t : t \in Failed)

\* The lines of the records of the tasks handed to main, in completion order.
StreamedLines == [k \in 1..Len(YieldedOk) |-> dumps(futures[YieldedOk[k]].record[1])]

StreamedContent == Concat([k \in 1..Len(StreamedLines) |-> StreamedLines[k] \o <<"\n">>])

\* The number of positions of a sequence that hold x.
Count(seq, x) == Cardinality({k \in 1..Len(seq) : seq[k] = x})

IsPermutation(a, b) ==
    /\ Len(a) = Len(b)
    /\ \A x \in Range(a) \cup Range(b) : Count(a, x) = Count(b, x)

\* The Dates of the lines of the output file, in file order.
OutDates == LET ls == Lines(out) IN [k \in 1..Len(ls) |-> loads(ls[k]).val.Date]

StreamingOver == pc \in {"reorder", "sort", "truncate", "rewrite", "done"}

\* C1 (isolation): whichever tasks fail, by a decode failure or by a failed
\* attachment write, and in whichever order the tasks complete, the
\* collection loop consumes all N results; while it runs and when it has
\* ended, the output file holds exactly the lines of the records returned by
\* the consumed tasks that succeeded, each for its own source file, and the
\* error list holds exactly one message per consumed task that failed.  No
\* failure ends the process during the loop.
C1_Isolation ==
    /\ pc \in {"collect", "reorder"} =>
          /\ out = StreamedContent
          /\ Len(Lines(out)) = Len(yielded) - Len(YieldedFailed)
          /\ Len(errors) = Len(YieldedFailed)
          /\ \A k \in 1..Len(errors) : errors[k] = futures[YieldedFailed[k]].error[1]
          /\ \A t \in Succeeded : futures[t].record[1].SourceFile = files[t]
    /\ pc = "reorder" =>
          /\ Range(yielded) = Tasks /\ Len(yielded) = total
          /\ Len(Lines(out)) = total - Cardinality(Failed)
          /\ Len(errors) = Cardinality(Failed)
    /\ pc = "crashed" => futures = <<>>

\* A batch of three in which one task failed to decode, one failed writing an
\* attachment and one succeeded after a failed task had been consumed.
C1_Witness ==
    /\ pc = "reorder"
    /\ \E a, b, c \in Tasks :
          /\ futures[a].error = Some(<<"Error parsing ">> \o files[a] \o <<": ", "InvalidFormat">>)
          /\ futures[b].error = Some(<<"Error parsing ">> \o files[b] \o <<": ", "WriteFailed">>)
          /\ c \in Succeeded
          /\ yielded[1] = a /\ yielded[Len(yielded)] = c

\* C2: every submitted task ends with exactly one outcome, a record or an
\* error, never both and never neither; main consumes each outcome once; and
\* once the tasks are submitted the streaming phase eventually ends, which it
\* does only with every task's outcome consumed.
C2_EveryTaskYieldsOneOutcome ==
    /\ [](\A t \in Tasks :
            /\ futures[t].state = "FINISHED" => (IsNone(futures[t].record) # IsNone(futures[t].error))
            /\ futures[t].state # "FINISHED" => IsNone(futures[t].record) /\ IsNone(futures[t].error)
            /\ Count(yielded, t) <= 1
            /\ Count(yielded, t) = 1 => futures[t].state = "FINISHED")
    /\ [](StreamingOver => \A t \in Tasks : Count(yielded, t) = 1)
    /\ (pc = "collect") ~> StreamingOver

\* The streaming phase has ended on three tasks, with both kinds of outcome.
C2_Witness ==
    /\ StreamingOver
    /\ Len(futures) = NumFiles
    /\ Succeeded # {} /\ Failed # {}
    /\ \A t \in Tasks : Count(yielded, t) = 1

\* C3: when main has returned, in every sort mode, the output file holds the
\* line of each successful task's record exactly once, and nothing else: one
\* line per successful task, and no line for the source file of a failed one.
C3_EachRecordOnce ==
    pc = "done" =>
        /\ Len(Lines(out)) = Cardinality(Succeeded)
        /\ \A t \in Succeeded : Count(Lines(out), dumps(futures[t].record[1])) = 1
        /\ \A t \in Failed : \A k \in 1..Len(Lines(out)) :
              loads(Lines(out)[k]).val.SourceFile # files[t]
        /\ Len(errors) = Cardinality(Failed)

\* A descending run with two successes, which the pass reordered, and a failure.
C3_Witness ==
    /\ pc = "done" /\ sort_date = "desc"
    /\ Cardinality(Succeeded) >= 2 /\ Failed # {}
    /\ Lines(out) # StreamedLines

\* C4: after the reorder pass the lines of the output file are a permutation
\* of the streamed lines, ordered by Date compared as strings: non-decreasing
\* in asc mode, so that the records with an empty Date come first, and
\* non-increasing in desc mode.
C4_SortedByDate ==
    (pc = "done" /\ sort_date # "none") =>
        /\ IsPermutation(Lines(out), StreamedLines)
        /\ LET dates == OutDates
           IN  \A j, k \in 1..Len(dates) :
                  j < k =>
                     /\ sort_date = "asc" => ~StrLess(dates[k], dates[j])
                     /\ sort_date = "asc" /\ dates[k] = <<>> => dates[j] = <<>>
                     /\ sort_date = "desc" => ~StrLess(dates[j], dates[k])

\* A descending run whose streamed file began with an empty Date followed by
\* two different days.
C4_Witness ==
    /\ pc = "done" /\ sort_date = "desc"
    /\ Len(StreamedLines) = NumFiles
    /\ futures[YieldedOk[1]].record[1].Date = <<>>
    /\ futures[YieldedOk[2]].record[1].Date = <<"0", "9">>
    /\ futures[YieldedOk[3]].record[1].Date = <<"1", "0">>

\* C5: in sort mode none, once the streaming phase is over the output file is
\* the lines of the successful records in the order in which as_completed
\* handed their tasks to main, and stays so until main returns.
C5_CompletionOrder ==
    (sort_date = "none" /\ StreamingOver) =>
        /\ pc \in {"reorder", "done"}
        /\ out = StreamedContent

\* Mode none, main has returned, and a later submitted task's record precedes
\* an earlier submitted one's in the file.
C5_Witness ==
    /\ sort_date = "none" /\ pc = "done"
    /\ Len(YieldedOk) >= 2
    /\ YieldedOk[1] > YieldedOk[2]

\* C6: the asc reorder pass is idempotent.  Applied to the file an asc run
\* has left, or to a streamed file that is already in ascending Date order,
\* it returns the same sequence of atoms; and what the run left is what the
\* pass returns for the streamed file.
C6_ReorderIdempotent ==
    /\ (pc = "done" /\ sort_date = "asc") =>
          /\ out = ReorderPass(StreamedContent, "asc")
          /\ ReorderPass(out, "asc") = out
    /\ (pc = "reorder" /\ \A j, k \in DOMAIN OutDates : j < k => StrLeq(OutDates[j], OutDates[k])) =>
          ReorderPass(out, "asc") = out

\* An asc run has ended on a file of three records, two of them with the
\* same Date, which the pass had to reorder.
C6_Witness ==
    /\ pc = "done" /\ sort_date = "asc"
    /\ Len(OutDates) = NumFiles
    /\ OutDates[1] = OutDates[2] /\ OutDates[2] # OutDates[NumFiles]
    /\ out # StreamedContent

\* C7: a run goes past the confirmation gate only on the answer "y" or "Y";
\* on any other answer it has exited with status 1, no task was submitted, no
\* attachment file was written, and the output file was neither created nor
\* truncated.
C7_DeclineAborts ==
    /\ pc \in {"open", "collect", "reorder", "sort", "truncate", "rewrite", "done"} =>
          confirm \in {"y", "Y"}
    /\ pc = "exited" =>
          /\ confirm \notin {"y", "Y"}
          /\ exitCode = Some(1)
          /\ futures = <<>> /\ proc = <<>>
          /\ attdir.files = {}
          /\ out \in {NoFile, OldContent}

\* The answer "yes" to a scan that found files, with an output file present.
C7_Witness ==
    /\ pc = "exited" /\ confirm = "yes"
    /\ Len(files) = NumFiles
    /\ out = OldContent

\* C8: with an unreadable root directory, in recursive and in non-recursive
\* mode alike, the run never reaches the confirmation gate: the scan ends the
\* process with a non-zero status, no task is submitted and the output file
\* is not opened.
C8_UnreadableRootIsFatal ==
    ~rootReadable =>
        /\ pc \in {"mkdir", "scan", "crashed"}
        /\ pc = "crashed" => exitCode = Some(1)
        /\ futures = <<>>
        /\ out \in {NoFile, OldContent}

\* The file as the reorder pass must leave it: the streamed lines, sorted.
SortedContent == ReorderPass(StreamedContent, sort_date)

\* C9 as stated: from the end of the streaming phase on, the output file of
\* a sorting run is the complete streamed sequence or the complete sorted
\* sequence, at every point of the pass.
C9_NeverPartial ==
    (StreamingOver /\ sort_date # "none") => out \in {StreamedContent, SortedContent}

\* C9 as amended: the pass rewrites the file in place.  Until the file is
\* reopened for writing it holds the complete streamed sequence; from then
\* until the pass ends it holds a prefix of the sorted sequence made of w
\* whole lines, none right after the reopening; when main has returned it
\* holds the complete sorted sequence.
C9_RewrittenInPlace ==
    (StreamingOver /\ sort_date # "none") =>
        /\ pc \in {"reorder", "sort", "truncate"} => out = StreamedContent
        /\ pc = "rewrite" =>
              /\ IsPrefix(out, SortedContent)
              /\ Cardinality(Breaks(out)) = w
              /\ Len(out) > 0 => out[Len(out)] = "\n"
        /\ pc = "done" => out = SortedContent

\* The pass has written back one of two records, in an order that differs
\* from the streamed one.
C9_Witness ==
    /\ pc = "rewrite" /\ w = 1
    /\ Len(Lines(SortedContent)) = 2
    /\ Lines(out)[1] = Lines(StreamedContent)[2]

\* C10: every step that changes the output file is a step of main (its
\* position or a loop counter advances), never of a pool process (whose
\* steps change a submitted future, a task's locals or the attachments), and
\* it either truncates the file or appends to it exactly one whole line: the
\* JSON text of one record followed by a line break.  So the file always
\* consists of whole lines.
C10_SingleWriter ==
    [][out' # out =>
          /\ pc' # pc \/ yielded' # yielded \/ w' # w
          /\ futures = <<>> \/ (futures' = futures /\ proc' = proc)
          /\ attdir' = attdir
          /\ \/ out' = <<>>
             \/ \E r \in {futures[t].record[1] : t \in Succeeded} \cup Range(records) :
                   out' = out \o dumps(r) \o <<"\n">>
          /\ Len(out') > 0 => out'[Len(out')] = "\n"]_vars

\* main has appended two records while a pool process is in the middle of
\* its attachment loop.
C10_Witness ==
    /\ pc = "collect"
    /\ Len(Lines(out)) = 2
    /\ \E t \in Tasks : futures[t].state = "RUNNING" /\ Len(proc[t].attachment_names) = 1

\* ------------------------------------------------------------ C11

\* The positions of the separators of an address string.
SepPositions(s) == {j \in 1..Len(s) : s[j] = ";"}

\* The number of entries the separators delimit.
EntryCount(s) == Cardinality(SepPositions(s)) + 1

\* The position of the k-th separator; 0 before the first entry and
\* Len(s) + 1 after the last.
SepAt(s, k) ==
    IF k = 0 THEN 0
    ELSE IF k = EntryCount(s) THEN Len(s) + 1
    ELSE CHOOSE j \in SepPositions(s) :
            Cardinality({m \in SepPositions(s) : m < j}) = k - 1

\* The k-th entry: what lies between two separators, without the whitespace
\* around it, and then without its NUL characters.
Entry(s, k) ==
    LET piece == SubSeq(s, SepAt(s, k - 1) + 1, SepAt(s, k) - 1)
        inner == {j \in 1..Len(piece) : piece[j] \notin {" ", "\\x1F"}}
        trimmed == IF inner = {} THEN <<>>
                   ELSE SubSeq(piece,
                               CHOOSE j \in inner : \A m \in inner : j <= m,
                               CHOOSE j \in inner : \A m \in inner : m <= j)
    IN  SelectSeq(trimmed, LAMBDA c : c # "\\x00")

\* The first n entries, ", " between them.
JoinedEntries(s, n) ==
    Concat([k \in 1..n |-> IF k = 1 THEN Entry(s, k) ELSE <<",", " ">> \o Entry(s, k)])

EndsWithOthers(text) ==
    /\ Len(text) >= 7
    /\ SubSeq(text, Len(text) - 6, Len(text)) = <<" ", "o", "t", "h", "e", "r", "s">>

\* C11: summarize_addresses(s, limit) returns the empty string for an empty
\* or absent s; for a non-empty s of count entries it returns all the
\* trimmed and cleaned entries joined by ", ", without an "others" suffix,
\* when limit is 0 or count <= limit, and exactly the first limit entries
\* followed by ", and {count - limit} others" when 1 <= limit < count.
C11_SummarizeAddresses ==
    call.fn = "summarize_addresses" =>
        LET s == call.value.chars
            limit == call.limit
            count == EntryCount(s)
            ret == call.ret.value
        IN  /\ ~call.ret.raised
            /\ (call.value.type = "NoneType" \/ Len(s) = 0) => ret = <<>>
            /\ (Len(s) > 0 /\ (limit = 0 \/ count <= limit)) =>
                    ret = JoinedEntries(s, count) /\ ~EndsWithOthers(ret)
            /\ (Len(s) > 0 /\ limit >= 1 /\ count > limit) =>
                    ret = JoinedEntries(s, limit)
                            \o <<",", " ", "a", "n", "d", " ", Digits[count - limit + 1]>>
                            \o <<" ", "o", "t", "h", "e", "r", "s">>

\* A call that cuts a list of two entries to its first, which lost the
\* whitespace before it.
C11_Witness ==
    /\ call.fn = "summarize_addresses"
    /\ call.value.chars = <<" ", "a", ";">>
    /\ call.limit = 1
    /\ call.ret.value = <<"a", ",", " ", "a", "n", "d", " ", "1",
                          " ", "o", "t", "h", "e", "r", "s">>

\* ------------------------------------------------------------ C12

IsControl(c) == c \in {"\\x00", "\\x1F", "\\x7F"}

IsForbidden(c) == c \in {"\\", "/", ":", "*", "?", "\"", "<", ">", "|"}

\* C12: safe_filename never returns an empty string; its result holds no
\* control character and no forbidden character; it is the name with its
\* control characters removed and each forbidden character replaced by "_",
\* or the placeholder when nothing is left; "a/b:c" becomes "a_b_c".
C12_SafeFilename ==
    call.fn = "safe_filename" =>
        LET name == call.value.chars
            ret == call.ret.value
            kept == {j \in 1..Len(name) : ~IsControl(name[j])}
            \* the position in name of the k-th kept character
            at(k) == CHOOSE j \in kept : Cardinality({m \in kept : m < j}) = k - 1
        IN  /\ ~call.ret.raised
            /\ ret # <<>>
            /\ \A k \in 1..Len(ret) : ~IsControl(ret[k]) /\ ~IsForbidden(ret[k])
            /\ kept = {} => ret = <<"unnamed_attachment">>
            /\ name = <<"a", "/", "b", ":", "c">> => ret = <<"a", "_", "b", "_", "c">>
            /\ kept # {} =>
                  /\ Len(ret) = Cardinality(kept)
                  /\ \A k \in 1..Len(ret) :
                        ret[k] = IF IsForbidden(name[at(k)]) THEN "_" ELSE name[at(k)]

\* A name of control characters only was given the placeholder.
C12_Witness ==
    /\ call.fn = "safe_filename"
    /\ call.value.chars = <<"\\x00", "\\x1F", "\\x7F">>
    /\ call.ret.value = <<"unnamed_attachment">>

\* ------------------------------------------------------------ C13

\* C13 as stated: clean_value never raises, whatever the type of its
\* argument, and the string it returns holds no NUL character.  The branch
\* of the other types returns str(value) as it is.
C13_NeverRaisesNoNul ==
    call.fn = "clean_value" =>
        /\ ~call.ret.raised
        /\ \A k \in 1..Len(call.ret.value) : call.ret.value[k] # "\\x00"

\* ------------------------------------------------------------ C14

\* The SourceFile of the records of the output file, line by line.
OutSources == LET ls == Lines(out) IN [k \in 1..Len(ls) |-> loads(ls[k]).val.SourceFile]

\* The place a source file's record had in the streamed file.
StreamedAt(source) == CHOOSE k \in 1..Len(YieldedOk) : files[YieldedOk[k]] = source

\* C14: the reorder sort is stable in both directions.  In the file an asc
\* or a desc run has left, two records with an equal Date stand in the
\* order they had in the streamed file, that of their completion.
C14_StableBothDirections ==
    (pc = "done" /\ sort_date \in {"asc", "desc"}) =>
        LET dates == OutDates
            sources == OutSources
        IN  \A j, k \in DOMAIN dates :
                (j < k /\ dates[j] = dates[k]) =>
                    StreamedAt(sources[j]) < StreamedAt(sources[k])

\* A desc run has ended: two records of one Date were streamed after a
\* record of an earlier Date, the later submitted of the two first, and
\* stand in that order at the head of the file.
C14_Witness ==
    /\ pc = "done" /\ sort_date = "desc"
    /\ Len(OutDates) = 3
    /\ OutDates[1] = OutDates[2] /\ StrLess(OutDates[3], OutDates[1])
    /\ StreamedAt(OutSources[3]) = 1
    /\ \E a, b \in Tasks :
          /\ a > b
          /\ OutSources[1] = files[a]
          /\ OutSources[2] = files[b]

\* ------------------------------------------------------------ C15

\* The tasks that failed while writing an attachment.
WriteFailures ==
    {t \in Tasks : /\ futures[t].state = "FINISHED"
                   /\ ~IsNone(futures[t].error)
                   /\ futures[t].error[1][Len(futures[t].error[1])] = "WriteFailed"}

\* A task that failed writing an attachment has no record; the output file
\* never holds a line of its source file; once the loop has taken its
\* result, its message is among the collected errors.
C15_NoRecord ==
    \A t \in WriteFailures :
        /\ IsNone(futures[t].record)
        /\ files[t] \notin Range(OutSources)
        /\ t \in Range(yielded) => futures[t].error[1] \in Range(errors)

\* The step in which the write of an attachment fails leaves every file the
\* task had written where it was, unchanged unless the failed write went to
\* the same name, and leaves the output file alone.
C15_FailingStep(t) ==
    (futures[t].state = "RUNNING" /\ futures'[t].state = "FINISHED"
        /\ IsNone(futures'[t].record)) =>
        LET att == AttachmentsOf(files[t])[proc[t].k]
            failing == UniqueName(files[t], safe_filename(ChosenName(att)[1]))
        IN  /\ ~IsNone(futures'[t].error)
            /\ out' = out
            /\ \A n \in Range(proc[t].attachment_names) :
                  \E f \in attdir'.files :
                      f.name = n /\ (n # failing => f \in attdir.files)

\* No step removes a file from the attachments directory.
C15_NoRollback == \A f \in attdir.files : \E g \in attdir'.files : g.name = f.name

\* C15: when the write of the k-th attachment of a task fails, the task
\* fails as a whole: it yields an error and no record, nothing of its source
\* file reaches the output file, and the attachment files it had written
\* stay on disk, then and ever after.
C15_AttachmentWriteFailure ==
    /\ []C15_NoRecord
    /\ [][(\A t \in Tasks : C15_FailingStep(t)) /\ C15_NoRollback]_vars

\* A run has ended in which m2 failed on its second named attachment: its
\* first attachment file is on disk with its payload, next to the empty file
\* of the failed write, and its error was collected.
C15_Witness ==
    /\ pc = "done"
    /\ \E t \in WriteFailures :
          /\ Stem(files[t]) = <<"m2">>
          /\ futures[t].error[1] \in Range(errors)
    /\ [name |-> <<"m2", "_", "a", "_", "b">>, data |-> "d1"] \in attdir.files
    /\ [name |-> <<"m2", "_", "c">>, data |-> ""] \in attdir.files

\* ------------------------------------------------------------ C16

\* Whether an optional name is present and not empty.
HasName(o) == Len(o) = 1 /\ Len(o[1]) > 0

\* The indices of the attachments of a message that have a long or a short
\* name, in attachment order.
NamedEntries(atts) ==
    SelectSeq([k \in 1..Len(atts) |-> k],
              LAMBDA k : HasName(atts[k].longFilename) \/ HasName(atts[k].shortFilename))

\* The sanitized form of a name.
Sanitized(name) ==
    LET kept == SelectSeq(name, LAMBDA c : ~IsControl(c))
    IN  IF kept = <<>> THEN <<"unnamed_attachment">>
        ELSE [k \in 1..Len(kept) |-> IF IsForbidden(kept[k]) THEN "_" ELSE kept[k]]

\* '{stem of the source file}_{sanitized name}' for the long name of an
\* attachment, or for its short name when it has no long one.
ListedName(path, att) ==
    <<path[Len(path) - 1], "_">>
        \o Sanitized(IF HasName(att.longFilename) THEN att.longFilename[1]
                     ELSE att.shortFilename[1])

\* C16: the Attachments list of the record of a successful task has one
\* entry per attachment with a long or a short name, in attachment order,
\* each '{stem}_{sanitized name}' and the name of a file under the
\* attachments directory that holds the payload; the entries without a name
\* gave no file and no error.
C16_AttachmentsList ==
    \A t \in Succeeded :
        LET atts == AttachmentsOf(files[t])
            named == NamedEntries(atts)
            listed == futures[t].record[1].Attachments
        IN  /\ IsNone(futures[t].error)
            /\ Len(listed) = Len(named)
            /\ \A j \in 1..Len(named) :
                  /\ listed[j] = ListedName(files[t], atts[named[j]])
                  /\ [name |-> listed[j], data |-> atts[named[j]].data] \in attdir.files
            /\ Cardinality({f \in attdir.files : f.name[1] = files[t][Len(files[t]) - 1]})
                  = Len(named)

\* m2 succeeded: of its three attachments the first is listed under its
\* sanitized long name, the second, without a name, is skipped, and the
\* third is listed under its short name; the directory holds its two files.
C16_Witness ==
    \E t \in Succeeded :
        /\ Stem(files[t]) = <<"m2">>
        /\ Len(AttachmentsOf(files[t])) = 3
        /\ futures[t].record[1].Attachments =
              <<<<"m2", "_", "a", "_", "b">>, <<"m2", "_", "c">>>>
        /\ Cardinality({f \in attdir.files : f.name[1] = "m2"}) = 2

\* ------------------------------------------------------------ C17

\* The number of lines of the output file.
OutLineCount == Cardinality(Breaks(out))

\* C17: while the collection loop runs, after it has consumed i results,
\* the lines of the output file and the collected errors add up to i; when
\* the streaming phase is over, i is the number of tasks and the reported
\* success count, total - len(errors), is the number of lines of the file.
C17_Accounting ==
    /\ pc = "collect" =>
          /\ i = Len(yielded)
          /\ OutLineCount + Len(errors) = i
    /\ pc = "reorder" =>
          /\ i = total
          /\ OutLineCount + Len(errors) = i
          /\ summary = Some([succeeded |-> total - Len(errors), failed |-> Len(errors)])
          /\ summary[1].succeeded = OutLineCount

\* The streaming phase of a run over three files is over: two lines were
\* written and one error was collected, and 2 is the reported success count.
C17_Witness ==
    /\ pc = "reorder"
    /\ i = 3
    /\ OutLineCount = 2
    /\ Len(errors) = 1
    /\ summary[1].succeeded = 2

====
